---------------------------- MODULE Spec2Model ----------------------------
(***************************************************************************)
(* Model of the makudoku propagation/search core: the board state with its *)
(* undo trail (state.rs), the constraint rules (constraints.rs) and the    *)
(* engine with its propagation queue and MRV search (engine.rs).           *)
(*                                                                         *)
(* A Domain (u16) is modelled as the set of its set bit positions, a       *)
(* subset of 0..15: bit d stands for digit d.  m1 & m2 is intersection,    *)
(* m1 | m2 is union, m1 & !m2 is set difference, count_ones is the         *)
(* cardinality and trailing_zeros the least element.                       *)
(***************************************************************************)
EXTENDS Integers, Sequences, FiniteSets, TLC

VARIABLES
    domains,      \* State.domains: [Domain; NN]
    trail,        \* State.trail: Vec<(CellIx, Domain)>
    queue,        \* State.queue: VecDeque<usize> (0-based constraint indices)
    constraints,  \* Engine.constraints: Vec<Constraint>
    watchers,     \* Engine.watchers: Vec<Vec<usize>>, one list per cell
    branches,     \* Engine.branches: u32
    pc,           \* position of the running call
    stack,        \* the active search() frames below the running one
    any,          \* propagate()'s local `any`
    result,       \* what the last finished call returned
    pre,          \* domains and trail when the last rule, load or top-level search began,
                  \* the text a load was given, and the queue the first propagate()
                  \* of a top-level search drains
    ckpt          \* a checkpoint taken by the caller: trail length and domains then

vars == <<domains, trail, queue, constraints, watchers, branches, pc, stack,
          any, result, pre, ckpt>>

(***************************************************************************)
(* types.rs                                                                *)
(***************************************************************************)
N == 9
NN == N * N
DomainBits == 16
DIGITS_MASK == 1..9
EVEN_MASK == {2, 4, 6, 8}

Cells == 0..(NN - 1)
AllBits == 0..(DomainBits - 1)

row_of(i) == i \div N
col_of(i) == i % N
box_of(i) == (row_of(i) \div 3) * 3 + (col_of(i) \div 3)
idx(r, c) == (r * N + c) % 256

bit_of_digit(d) == {d} \cap AllBits

\* m << 1 and m >> 1 on a u16
Shl1(m) == {b + 1 : b \in m} \cap AllBits
Shr1(m) == {b - 1 : b \in m \ {0}}

count_ones(m) == Cardinality(m)
trailing_zeros(m) == CHOOSE b \in m : \A c \in m : b <= c

\* The index of the last element of a non-empty set of sequence indices.
MaxOf(S) == CHOOSE x \in S : \A y \in S : y <= x

(***************************************************************************)
(* state.rs: State::new, narrow, assign, backtrack_to.  The operations are *)
(* functions of (domains, trail); a call returns the Result tag in `res`   *)
(* ("Ok" / "Err" for Contradiction / "Panic"), the bool of Ok(bool) in     *)
(* `changed`, and the domains and trail it leaves behind.                  *)
(***************************************************************************)
NewDomains == [i \in Cells |-> DIGITS_MASK]

Ret(res, changed, doms, tr) ==
    [res |-> res, changed |-> changed, domains |-> doms, trail |-> tr]

\* narrow storing the new domain before it tests it for emptiness
narrow_store_first(doms, tr, i, mask) ==
    LET old == doms[i]
        new == old \cap mask
    IN  IF new = {} THEN Ret("Err", FALSE, [doms EXCEPT ![i] = new], tr)
        ELSE IF new # old
             THEN Ret("Ok", TRUE, [doms EXCEPT ![i] = new], Append(tr, <<i, old>>))
             ELSE Ret("Ok", FALSE, doms, tr)

\* narrow recording the new domain, not the old one, on the trail
narrow_trail_new(doms, tr, i, mask) ==
    LET old == doms[i]
        new == old \cap mask
    IN  IF new = {} THEN Ret("Err", FALSE, doms, tr)
        ELSE IF new # old
             THEN Ret("Ok", TRUE, [doms EXCEPT ![i] = new], Append(tr, <<i, new>>))
             ELSE Ret("Ok", FALSE, doms, tr)

\* narrow storing the mask itself, not its intersection with the old domain
narrow_store_mask(doms, tr, i, mask) ==
    LET old == doms[i]
        new == old \cap mask
    IN  IF new = {} THEN Ret("Err", FALSE, doms, tr)
        ELSE IF new # old
             THEN Ret("Ok", TRUE, [doms EXCEPT ![i] = mask], Append(tr, <<i, old>>))
             ELSE Ret("Ok", FALSE, doms, tr)

narrow(doms, tr, i, mask) ==
    LET old == doms[i]
        new == old \cap mask
    IN  IF new = {} THEN Ret("Err", FALSE, doms, tr)
        ELSE IF new # old
             THEN Ret("Ok", TRUE, [doms EXCEPT ![i] = new], Append(tr, <<i, old>>))
             ELSE Ret("Ok", FALSE, doms, tr)

\* assign reporting Ok without narrowing the cell
assign_keep(doms, tr, i, single) == Ret("Ok", FALSE, doms, tr)

\* debug_assert!(single.count_ones() == 1) is compiled out of release builds
assign(doms, tr, i, single) == narrow(doms, tr, i, single)

\* backtrack_to popping while len >= trail_len: one entry too many
RECURSIVE backtrack_to_off_by_one(_, _, _)
backtrack_to_off_by_one(doms, tr, trail_len) ==
    IF Len(tr) >= trail_len /\ Len(tr) > 0
    THEN LET e == tr[Len(tr)]
         IN  backtrack_to_off_by_one([doms EXCEPT ![e[1]] = e[2]],
                                     SubSeq(tr, 1, Len(tr) - 1), trail_len)
    ELSE [domains |-> doms, trail |-> tr]

\* backtrack_to truncating the trail without restoring the domains
backtrack_to_keep_domains(doms, tr, trail_len) ==
    [domains |-> doms,
     trail |-> IF Len(tr) > trail_len THEN SubSeq(tr, 1, trail_len) ELSE tr]

RECURSIVE backtrack_to(_, _, _)
backtrack_to(doms, tr, trail_len) ==
    IF Len(tr) > trail_len
    THEN LET e == tr[Len(tr)]
         IN  backtrack_to([doms EXCEPT ![e[1]] = e[2]], SubSeq(tr, 1, Len(tr) - 1),
                          trail_len)
    ELSE [domains |-> doms, trail |-> tr]

(***************************************************************************)
(* constraints.rs: the rules.  A rule mutates the state in place, so what  *)
(* it narrowed before a failing narrow stays narrowed in the Err result.   *)
(***************************************************************************)
AllDifferent(cells) == [kind |-> "AllDifferent", cells |-> cells]
KropkiWhite(a, b) == [kind |-> "KropkiWhite", cells |-> <<a, b>>]
KropkiBlack(a, b) == [kind |-> "KropkiBlack", cells |-> <<a, b>>]
Thermo(cells) == [kind |-> "Thermo", cells |-> cells]

scope(c) == c.cells

\* taken left at zero by the first loop
Taken_none(doms, cells) == {}

\* count[d] and last_pos[d] as the first loop of propagate_all_diff leaves them
CountOf(doms, cells, d) == Cardinality({k \in DOMAIN cells : d \in doms[cells[k]]})
LastPos(doms, cells, d) == cells[MaxOf({k \in DOMAIN cells : d \in doms[cells[k]]})]
Taken(doms, cells) ==
    UNION {doms[cells[k]] : k \in {j \in DOMAIN cells : count_ones(doms[cells[j]]) = 1}}

\* The first loop: Err at the first empty domain; count[d] with d >= 10 is an
\* index out of bounds (count has 10 entries).
FirstLoop(doms, cells) ==
    LET bad == {k \in DOMAIN cells :
                   doms[cells[k]] = {} \/ \E b \in doms[cells[k]] : b >= 10}
    IN  IF bad = {} THEN "Ok"
        ELSE LET k == CHOOSE x \in bad : \A y \in bad : x <= y
             IN  IF doms[cells[k]] = {} THEN "Err" ELSE "Panic"

\* the duplicate check failing as soon as two cells still admit the digit
HasDuplicate_admitting(doms, cells) ==
    \E d \in 1..9 : CountOf(doms, cells, d) >= 2

\* the duplicate check failing only at the third singleton cell of a digit
HasDuplicate_third(doms, cells) ==
    \E d \in 1..9 :
        /\ CountOf(doms, cells, d) >= 2
        /\ Cardinality({k \in DOMAIN cells : doms[cells[k]] = {d}}) >= 3

\* The second loop: two cells that are singleton for the same digit.
HasDuplicate(doms, cells) ==
    \E d \in 1..9 :
        /\ CountOf(doms, cells, d) >= 2
        /\ Cardinality({k \in DOMAIN cells : doms[cells[k]] = {d}}) >= 2

\* the third loop assigning no digit
HiddenSingles_none(r, d0, cells, d) == r

\* The third loop, from digit d on: r is the state so far, d0 the domains at entry.
RECURSIVE HiddenSingles(_, _, _, _)
HiddenSingles(r, d0, cells, d) ==
    IF d > 9 THEN r
    ELSE IF CountOf(d0, cells, d) = 1
         THEN LET a == assign(r.domains, r.trail, LastPos(d0, cells, d), {d})
              IN  IF a.res # "Ok" THEN Ret(a.res, r.changed, a.domains, a.trail)
                  ELSE HiddenSingles(Ret("Ok", r.changed \/ a.changed, a.domains, a.trail),
                                     d0, cells, d + 1)
         ELSE HiddenSingles(r, d0, cells, d + 1)

\* The fourth loop, from position k of the scope on.
RECURSIVE NakedSingles(_, _, _, _)
NakedSingles(r, taken, cells, k) ==
    IF k > Len(cells) THEN r
    ELSE LET i == cells[k]
             di == r.domains[i]
         IN  IF count_ones(di) = 1 THEN NakedSingles(r, taken, cells, k + 1)
             ELSE LET a == narrow(r.domains, r.trail, i, di \ taken)
                  IN  IF a.res # "Ok" THEN Ret(a.res, r.changed, a.domains, a.trail)
                      ELSE NakedSingles(Ret("Ok", r.changed \/ a.changed, a.domains, a.trail),
                                        taken, cells, k + 1)

propagate_all_diff(doms, tr, cells) ==
    LET first == FirstLoop(doms, cells)
    IN  IF first # "Ok" THEN Ret(first, FALSE, doms, tr)
        ELSE IF HasDuplicate(doms, cells) THEN Ret("Err", FALSE, doms, tr)
        ELSE LET h == HiddenSingles(Ret("Ok", FALSE, doms, tr), doms, cells, 1)
                 taken == Taken(doms, cells)
             IN  IF h.res # "Ok" THEN h
                 ELSE IF taken # {} THEN NakedSingles(h, taken, cells, 1)
                 ELSE h

\* Both reach sets are computed from the domains read at entry; a is narrowed
\* first, and b only if that did not fail.
NarrowPair(doms, tr, a, b, reach_from_b, reach_from_a) ==
    LET ra == narrow(doms, tr, a, reach_from_b)
    IN  IF ra.res # "Ok" THEN ra
        ELSE LET rb == narrow(ra.domains, ra.trail, b, reach_from_a)
             IN  IF rb.res # "Ok" THEN Ret(rb.res, ra.changed, rb.domains, rb.trail)
                 ELSE Ret("Ok", ra.changed \/ rb.changed, rb.domains, rb.trail)

\* the reach set built from the upward shift alone
WhiteReach_up_only(m) == Shl1(m) \cap DIGITS_MASK

WhiteReach(m) == (Shl1(m) \cup Shr1(m)) \cap DIGITS_MASK

propagate_kropki_white(doms, tr, a, b) ==
    LET da == doms[a]
        db == doms[b]
    IN  NarrowPair(doms, tr, a, b, WhiteReach(db), WhiteReach(da))

\* the reach of the black dot halving odd digits too
BlackReach_no_even_mask(m) ==
    LET double == Shl1(m) \cap DIGITS_MASK
        half == Shr1(m) \cap DIGITS_MASK
    IN  (double \cup half) \cap DIGITS_MASK

BlackReach(m) ==
    LET double == Shl1(m) \cap DIGITS_MASK
        evens == m \cap EVEN_MASK
        half == Shr1(evens) \cap DIGITS_MASK
    IN  (double \cup half) \cap DIGITS_MASK

propagate_kropki_black(doms, tr, a, b) ==
    LET da == doms[a]
        db == doms[b]
    IN  NarrowPair(doms, tr, a, b, BlackReach(db), BlackReach(da))

\* Constraint::propagate: the Thermo arm is todo!(), which panics.
constraint_propagate(c, doms, tr) ==
    IF c.kind = "AllDifferent" THEN propagate_all_diff(doms, tr, c.cells)
    ELSE IF c.kind = "KropkiWhite"
         THEN propagate_kropki_white(doms, tr, c.cells[1], c.cells[2])
    ELSE IF c.kind = "KropkiBlack"
         THEN propagate_kropki_black(doms, tr, c.cells[1], c.cells[2])
    ELSE Ret("Panic", FALSE, doms, tr)

(***************************************************************************)
(* engine.rs: registration, queueing, MRV choice.  Constraint indices are  *)
(* 0-based as in the code: constraint ci is constraints[ci + 1].           *)
(***************************************************************************)
NewWatchers == [i \in Cells |-> <<>>]

RECURSIVE PushWatchers(_, _, _, _)
PushWatchers(ws, cells, k, ci) ==
    IF k > Len(cells) THEN ws
    ELSE PushWatchers([ws EXCEPT ![cells[k]] = Append(@, ci)], cells, k + 1, ci)

\* an engine under construction: [constraints, watchers]
NewEngine == [constraints |-> <<>>, watchers |-> NewWatchers]

add_constraint(e, c) ==
    LET ci == Len(e.constraints)
    IN  [constraints |-> Append(e.constraints, c),
         watchers |-> PushWatchers(e.watchers, scope(c), 1, ci)]

RowCells(r) == [c \in 1..N |-> idx(r, c - 1)]
ColCells(c) == [r \in 1..N |-> idx(r - 1, c)]
BoxCells(br, bc) == [k \in 1..9 |-> idx(br * 3 + ((k - 1) \div 3), bc * 3 + ((k - 1) % 3))]

RECURSIVE AddGroups(_, _, _)
AddGroups(e, groups, k) ==
    IF k > Len(groups) THEN e
    ELSE AddGroups(add_constraint(e, AllDifferent(groups[k])), groups, k + 1)

add_all_sudoku_constraints(e) ==
    LET rows == [r \in 1..N |-> RowCells(r - 1)]
        cols == [c \in 1..N |-> ColCells(c - 1)]
        boxes == [b \in 1..9 |-> BoxCells((b - 1) \div 3, (b - 1) % 3)]
    IN  AddGroups(AddGroups(AddGroups(e, rows, 1), cols, 1), boxes, 1)

add_kropki_white(e, a_rc, b_rc) ==
    add_constraint(e, KropkiWhite(idx(a_rc[1], a_rc[2]), idx(b_rc[1], b_rc[2])))

add_kropki_black(e, a_rc, b_rc) ==
    add_constraint(e, KropkiBlack(idx(a_rc[1], a_rc[2]), idx(b_rc[1], b_rc[2])))

enqueue_all(q, cs) == q \o [k \in 1..Len(cs) |-> k - 1]

\* enqueue_cell_constraints pushing nothing
enqueue_nothing(q, ws, i) == q

enqueue_cell_constraints(q, ws, i) == q \o ws[i]

\* the re-enqueue after a change pushing the watchers of the scope's first cell only
EnqueueScope_first(q, ws, cells, k) ==
    IF cells = <<>> THEN q ELSE q \o ws[cells[1]]

\* propagate()'s re-enqueue after a change: the watchers of every cell of the scope
RECURSIVE EnqueueScope(_, _, _, _)
EnqueueScope(q, ws, cells, k) ==
    IF k > Len(cells) THEN q
    ELSE EnqueueScope(enqueue_cell_constraints(q, ws, cells[k]), ws, cells, k + 1)

solved(doms) == \A i \in Cells : count_ones(doms[i]) = 1

\* choose_mrv's loop from cell i on; best is <<>> (None) or <<cell, count>>
RECURSIVE MrvLoop(_, _, _)
MrvLoop(doms, i, best) ==
    IF i >= NN THEN best
    ELSE LET cnt == count_ones(doms[i])
         IN  IF cnt > 1 /\ (best = <<>> \/ cnt < best[2])
             THEN MrvLoop(doms, i + 1, <<i, cnt>>)
             ELSE MrvLoop(doms, i + 1, best)

\* choose_mrv taking the first cell with more than one candidate, whatever its size
choose_mrv_first(doms) ==
    LET open == {i \in Cells : count_ones(doms[i]) > 1}
    IN  IF open = {} THEN <<>> ELSE <<CHOOSE i \in open : \A j \in open : i <= j>>

\* <<>> for None, <<cell>> for Some(cell)
choose_mrv(doms) ==
    LET best == MrvLoop(doms, 0, <<>>)
    IN  IF best = <<>> THEN <<>> ELSE <<best[1]>>

(***************************************************************************)
(* engine.rs: load_givens.  The string is a sequence of code points.       *)
(***************************************************************************)
\* char::is_whitespace: the Unicode White_Space code points
IsWhitespace(cp) ==
    \/ cp \in 9..13
    \/ cp \in {32, 133, 160, 5760, 8232, 8233, 8239, 8287, 12288}
    \/ cp \in 8192..8202

\* `ch as u8` keeps the low byte of the code point
AsU8(cp) == cp % 256

\* s.chars().filter(|c| !c.is_whitespace()).map(|ch| ch as u8)
NotWhitespace(cp) == ~IsWhitespace(cp)
FilterBytes(s) ==
    LET kept == SelectSeq(s, NotWhitespace)
    IN  [k \in 1..Len(kept) |-> AsU8(kept[k])]

LoadRet(res, msg, at, ch, doms, tr, q) ==
    [res |-> res, msg |-> msg, at |-> at, ch |-> ch,
     domains |-> doms, trail |-> tr, queue |-> q]

\* the body of the for loop of load_givens at (0-based) position i, from the
\* loop state l
LoadStep(l, ws, ch, i) ==
    IF ch = 46 \/ ch = 48 THEN l
    ELSE IF ~(ch \in 49..57)
         THEN LoadRet("Err", "invalid char", i, ch, l.domains, l.trail, l.queue)
    ELSE LET a == assign(l.domains, l.trail, i % 256, bit_of_digit(ch - 48))
         IN  IF a.res # "Ok"
             THEN LoadRet("Err", "contradiction from givens", i, ch,
                          l.domains, l.trail, l.queue)
             ELSE LoadRet("Ok", "", 0, 0, a.domains, a.trail,
                          enqueue_cell_constraints(l.queue, ws, i % 256))

\* the for loop over the positions i .. stop - 1; an Err leaves it
RECURSIVE LoadLoop(_, _, _, _, _)
LoadLoop(l, ws, bytes, i, stop) ==
    IF l.res # "Ok" \/ i >= stop THEN l
    ELSE LoadLoop(LoadStep(l, ws, bytes[i + 1], i), ws, bytes, i + 1, stop)

\* the whole loop, evaluated one row of positions after the other
RECURSIVE LoadRows(_, _, _, _)
LoadRows(l, ws, bytes, i) ==
    IF l.res # "Ok" \/ i >= Len(bytes) THEN l
    ELSE LoadRows(LoadLoop(l, ws, bytes, i,
                           IF i + N < Len(bytes) THEN i + N ELSE Len(bytes)),
                  ws, bytes, i + N)

\* load_givens taking the first 81 characters of a longer text
load_givens_decode_truncate(doms, tr, q, ws, s) ==
    LET bytes == FilterBytes(s)
    IN  IF Len(bytes) < NN
        THEN LoadRet("Err", "need 81 chars", Len(bytes), 0, doms, tr, q)
        ELSE LoadRows(LoadRet("Ok", "", 0, 0, doms, tr, q), ws, SubSeq(bytes, 1, NN), 0)

\* load_givens up to its final propagate() call
load_givens_decode(doms, tr, q, ws, s) ==
    LET bytes == FilterBytes(s)
    IN  IF Len(bytes) # NN
        THEN LoadRet("Err", "need 81 chars", Len(bytes), 0, doms, tr, q)
        ELSE LoadRows(LoadRet("Ok", "", 0, 0, doms, tr, q), ws, bytes, 0)

(***************************************************************************)
(* What every specification starts from: Engine::new().                    *)
(***************************************************************************)
\* the record of a finished call: which call, its result, the bool of Ok(bool),
\* a number (a trail length, a position) and, for load_givens, the message
\* and the offending byte
Res(op, res, changed, n) ==
    [op |-> op, res |-> res, changed |-> changed, n |-> n, msg |-> "", ch |-> 0]
NoResult == Res("new", "Ok", FALSE, 0)
Snapshot(doms, tr) == [domains |-> doms, trail |-> tr, text |-> <<>>, queue |-> <<>>]

EngineNew ==
    /\ domains = NewDomains
    /\ trail = <<>>
    /\ queue = <<>>
    /\ constraints = <<>>
    /\ watchers = NewWatchers
    /\ branches = 0
    /\ stack = <<>>
    /\ any = FALSE
    /\ result = NoResult
    /\ pre = Snapshot(NewDomains, <<>>)
    /\ ckpt = <<>>

(***************************************************************************)
(* SpecState: a caller of State alone (as the tests of state.rs are): any  *)
(* sequence of narrow, assign, backtrack_to and checkpoints on the first   *)
(* MaxCell cells, with the masks the tests of state.rs use.                *)
(***************************************************************************)
MaxCell == 2
MaxTrail == 3

StateCells == 0..(MaxCell - 1)
\* mask(&[3,4]), mask(&[1,2,3]), mask(&[4,5,6]) of the tests
TestMasks == {{3, 4}, {1, 2, 3}, {4, 5, 6}}
\* the digits the caller assigns (7 is the digit the tests assign)
TestDigits == {4, 7}

InitState ==
    /\ EngineNew
    /\ pc = "state"

EngineFrame == UNCHANGED <<queue, constraints, watchers, branches, pc, stack, any, pre>>

Narrow(i, mask) ==
    /\ pc = "state"
    /\ Len(trail) < MaxTrail
    /\ LET r == narrow(domains, trail, i, mask)
       IN  /\ domains' = r.domains
           /\ trail' = r.trail
           /\ result' = Res("narrow", r.res, r.changed, 0)
    /\ UNCHANGED ckpt
    /\ EngineFrame

Assign(i, d) ==
    /\ pc = "state"
    /\ Len(trail) < MaxTrail
    /\ LET r == assign(domains, trail, i, bit_of_digit(d))
       IN  /\ domains' = r.domains
           /\ trail' = r.trail
           /\ result' = Res("assign", r.res, r.changed, 0)
    /\ UNCHANGED ckpt
    /\ EngineFrame

\* let trail_len = self.state.trail.len(): the caller remembers the trail length
\* (and, for the record, the domains of that moment)
Checkpoint ==
    /\ pc = "state"
    /\ ckpt' = <<[k |-> Len(trail), domains |-> domains]>>
    /\ result' = Res("checkpoint", "Ok", FALSE, Len(trail))
    /\ UNCHANGED <<domains, trail>>
    /\ EngineFrame

\* backtrack_to(n); a checkpoint above n is no longer a checkpoint of this trail
Backtrack(n) ==
    /\ pc = "state"
    /\ LET b == backtrack_to(domains, trail, n)
       IN  /\ domains' = b.domains
           /\ trail' = b.trail
    /\ result' = Res("backtrack_to", "Ok", Len(trail) > n, n)
    /\ ckpt' = IF ckpt # <<>> /\ n < ckpt[1].k THEN <<>> ELSE ckpt
    /\ EngineFrame

NextState ==
    \/ \E i \in StateCells, mask \in TestMasks : Narrow(i, mask)
    \/ \E i \in StateCells, d \in TestDigits : Assign(i, d)
    \/ Checkpoint
    \/ \E n \in 0..(MaxTrail + 1) : Backtrack(n)

SpecState == InitState /\ [][NextState]_vars

(***************************************************************************)
(* The rules run alone on a preset board (as the tests of constraints.rs   *)
(* do): SpecKropki runs one Kropki rule on cells (0,0) and (0,1), each     *)
(* preset to a domain of at most MaxDomain digits or to the full domain.   *)
(***************************************************************************)
MaxDomain == 3

KropkiA == idx(0, 0)
KropkiB == idx(0, 1)

SmallDomains ==
    {m \in SUBSET DIGITS_MASK : m # {} /\ Cardinality(m) <= MaxDomain} \cup {DIGITS_MASK}

InitKropki ==
    /\ \E da \in SmallDomains, db \in SmallDomains :
          /\ domains = [NewDomains EXCEPT ![KropkiA] = da, ![KropkiB] = db]
          /\ pre = Snapshot([NewDomains EXCEPT ![KropkiA] = da, ![KropkiB] = db], <<>>)
    /\ trail = <<>>
    /\ queue = <<>>
    /\ constraints = <<>>
    /\ watchers = NewWatchers
    /\ branches = 0
    /\ stack = <<>>
    /\ any = FALSE
    /\ result = NoResult
    /\ ckpt = <<>>
    /\ pc = "rule"

RuleFrame == UNCHANGED <<queue, constraints, watchers, branches, stack, any, pre, ckpt>>

RunKropkiWhite ==
    /\ pc = "rule"
    /\ LET r == propagate_kropki_white(domains, trail, KropkiA, KropkiB)
       IN  /\ domains' = r.domains
           /\ trail' = r.trail
           /\ result' = Res("propagate_kropki_white", r.res, r.changed, 0)
    /\ pc' = "ruled"
    /\ RuleFrame

RunKropkiBlack ==
    /\ pc = "rule"
    /\ LET r == propagate_kropki_black(domains, trail, KropkiA, KropkiB)
       IN  /\ domains' = r.domains
           /\ trail' = r.trail
           /\ result' = Res("propagate_kropki_black", r.res, r.changed, 0)
    /\ pc' = "ruled"
    /\ RuleFrame

NextKropki == RunKropkiWhite \/ RunKropkiBlack

SpecKropki == InitKropki /\ [][NextKropki]_vars

(***************************************************************************)
(* SpecAllDiff runs propagate_all_diff on row 0.  The first MaxFree cells  *)
(* are preset to any non-empty set of the digits 1..MaxFree; the other     *)
(* cells of the row are all full, or cell j holds the single digit j + 1.  *)
(***************************************************************************)
MaxFree == 3

Row0 == RowCells(0)
FreeCells == 0..(MaxFree - 1)
FreeDomains == SUBSET (1..MaxFree) \ {{}}

RowPreset(f, tail) ==
    [i \in Cells |->
        IF i \in FreeCells THEN f[i]
        ELSE IF row_of(i) = 0 /\ tail = "single" THEN {i + 1}
        ELSE DIGITS_MASK]

InitAllDiff ==
    /\ \E f \in [FreeCells -> FreeDomains], tail \in {"single", "full"} :
          /\ domains = RowPreset(f, tail)
          /\ pre = Snapshot(RowPreset(f, tail), <<>>)
    /\ trail = <<>>
    /\ queue = <<>>
    /\ constraints = <<>>
    /\ watchers = NewWatchers
    /\ branches = 0
    /\ stack = <<>>
    /\ any = FALSE
    /\ result = NoResult
    /\ ckpt = <<>>
    /\ pc = "rule"

RunAllDiff ==
    /\ pc = "rule"
    /\ LET r == propagate_all_diff(domains, trail, Row0)
       IN  /\ domains' = r.domains
           /\ trail' = r.trail
           /\ result' = Res("propagate_all_diff", r.res, r.changed, 0)
    /\ pc' = "ruled"
    /\ RuleFrame

\* the rule run again on what the first run left (Engine::propagate re-enqueues
\* the constraint after a change)
RerunAllDiff ==
    /\ pc = "ruled"
    /\ result.res = "Ok"
    /\ result.changed
    /\ pre' = Snapshot(domains, trail)
    /\ LET r == propagate_all_diff(domains, trail, Row0)
       IN  /\ domains' = r.domains
           /\ trail' = r.trail
           /\ result' = Res("propagate_all_diff", r.res, r.changed, 1)
    /\ UNCHANGED <<queue, constraints, watchers, branches, stack, any, ckpt, pc>>

NextAllDiff == RunAllDiff \/ RerunAllDiff

SpecAllDiff == InitAllDiff /\ [][NextAllDiff]_vars

(***************************************************************************)
(* The engine as its caller drives it.  pc is the position of the running  *)
(* call:                                                                   *)
(*   "new"              constructed, constraints registered, nothing run   *)
(*   "preset"           the caller wrote state.domains itself              *)
(*   "load_propagate"   load_givens, inside its propagate() call           *)
(*   "load_after"       load_givens, propagate() has returned              *)
(*   "loaded"           load_givens returned Ok                            *)
(*   "load_failed"      load_givens returned Err                           *)
(*   "search_propagate" search, inside its propagate() call                *)
(*   "search_after"     search, propagate() has returned                   *)
(*   "branch"           search, at the head of the while loop over the     *)
(*                      chosen cell's digits (its frame is on the stack)   *)
(*   "search_return"    a search call has returned to its caller           *)
(*   "done"             the top-level search returned                      *)
(*   "panic"            the process aborted                                *)
(* A frame of the stack is a search call in its branch loop: the chosen    *)
(* cell i, the digits m still to try and the saved trail_len.  The frame   *)
(* also remembers the board at that checkpoint (doms), which the program   *)
(* does not store: it is there to state what backtracking restores.        *)
(***************************************************************************)
PropagatePcs == {"load_propagate", "search_propagate"}
\* propagate() never returning to its caller
AfterPc_stay(p) == p

AfterPc(p) == IF p = "load_propagate" THEN "load_after" ELSE "search_after"

\* search() never enqueueing all constraints
search_entry_never(q, tr, cs) == q

\* "enqueue all only at root": the first statement of search()
search_entry(q, tr, cs) ==
    IF tr = <<>> /\ q = <<>> THEN enqueue_all(q, cs) ELSE q

\* One iteration of propagate()'s while loop: pop a constraint and run its rule.
PropagateStep ==
    /\ pc \in PropagatePcs
    /\ queue # <<>>
    /\ LET ci == Head(queue)
           c == constraints[ci + 1]
       IN  \E r \in {constraint_propagate(c, domains, trail)} :
           /\ domains' = r.domains
           /\ trail' = r.trail
           /\ IF r.res = "Panic"
              THEN /\ pc' = "panic"
                   /\ queue' = Tail(queue)
                   /\ result' = Res("propagate", "Panic", FALSE, ci)
                   /\ UNCHANGED any
              ELSE IF r.res = "Err"
              THEN /\ pc' = AfterPc(pc)
                   /\ queue' = Tail(queue)
                   /\ result' = Res("propagate", "Err", FALSE, ci)
                   /\ UNCHANGED any
              ELSE /\ pc' = pc
                   /\ queue' = IF r.changed
                               THEN EnqueueScope(Tail(queue), watchers, scope(c), 1)
                               ELSE Tail(queue)
                   /\ any' = (any \/ r.changed)
                   /\ UNCHANGED result
    /\ UNCHANGED <<constraints, watchers, branches, stack, pre, ckpt>>

\* propagate() leaves its loop on the empty queue
PropagateReturn ==
    /\ pc \in PropagatePcs
    /\ queue = <<>>
    /\ result' = Res("propagate", IF any THEN "Progress" ELSE "Stalled", any, 0)
    /\ pc' = AfterPc(pc)
    /\ UNCHANGED <<domains, trail, queue, constraints, watchers, branches, stack,
                   any, pre, ckpt>>

\* the caller writes the domains itself (state and domains are pub), as the tests
\* of state.rs and constraints.rs do
Preset(doms) ==
    /\ pc = "new"
    /\ domains' = doms
    /\ pc' = "preset"
    /\ pre' = Snapshot(doms, trail)
    /\ UNCHANGED <<trail, queue, constraints, watchers, branches, stack, any,
                   result, ckpt>>

\* load_givens(s) up to its propagate() call
LoadGivens(s) ==
    /\ pc = "new"
    /\ pre' = [Snapshot(domains, trail) EXCEPT !.text = s]
    /\ \E l \in {load_givens_decode(domains, trail, queue, watchers, s)} :
           /\ domains' = l.domains
           /\ trail' = l.trail
           /\ queue' = l.queue
           /\ IF l.res = "Ok"
              THEN /\ pc' = "load_propagate"
                   /\ any' = FALSE
                   /\ UNCHANGED result
              ELSE /\ pc' = "load_failed"
                   /\ result' = [Res("load_givens", "Err", FALSE, l.at)
                                   EXCEPT !.msg = l.msg, !.ch = l.ch]
                   /\ UNCHANGED any
    /\ UNCHANGED <<constraints, watchers, branches, stack, ckpt>>

\* the match on propagate()'s result that ends load_givens
LoadReturn ==
    /\ pc = "load_after"
    /\ IF result.res = "Err"
       THEN /\ pc' = "load_failed"
            /\ result' = [Res("load_givens", "Err", FALSE, 0)
                            EXCEPT !.msg = "contradiction from givens"]
       ELSE /\ pc' = "loaded"
            /\ result' = Res("load_givens", "Ok", FALSE, 0)
    /\ UNCHANGED <<domains, trail, queue, constraints, watchers, branches, stack,
                   any, pre, ckpt>>

\* the top-level search() call, up to its first propagate() call
Search ==
    /\ pc \in {"new", "preset", "loaded"}
    /\ queue' = search_entry(queue, trail, constraints)
    /\ pre' = [Snapshot(domains, trail) EXCEPT !.queue = queue']
    /\ any' = FALSE
    /\ pc' = "search_propagate"
    /\ UNCHANGED <<domains, trail, constraints, watchers, branches, stack, result, ckpt>>

\* the propagation error passed on to the caller of search, as `?` would
ReturnFromSearch_try(v) ==
    /\ result' = Res("search", IF result.res = "Err" THEN "Err" ELSE v, FALSE, Len(stack))
    /\ pc' = "search_return"

ReturnFromSearch(v) ==
    /\ result' = Res("search", v, FALSE, Len(stack))
    /\ pc' = "search_return"

\* search() after a propagate() call: the loop's match, then the solved and
\* empty-domain tests and the MRV choice
SearchAfter ==
    /\ pc = "search_after"
    /\ IF result.res = "Err"
       THEN ReturnFromSearch("false") /\ UNCHANGED <<stack, any>>
       ELSE IF result.res = "Progress"
       THEN IF solved(domains)
            THEN ReturnFromSearch("true") /\ UNCHANGED <<stack, any>>
            ELSE \* the loop calls propagate() again
                 /\ pc' = "search_propagate"
                 /\ any' = FALSE
                 /\ UNCHANGED <<stack, result>>
       ELSE IF solved(domains)
       THEN ReturnFromSearch("true") /\ UNCHANGED <<stack, any>>
       ELSE IF \E i \in Cells : domains[i] = {}
       THEN ReturnFromSearch("false") /\ UNCHANGED <<stack, any>>
       ELSE \E choice \in {choose_mrv(domains)} :
                IF choice = <<>>
                THEN ReturnFromSearch("true") /\ UNCHANGED <<stack, any>>
                ELSE /\ stack' = Append(stack, [i |-> choice[1],
                                               m |-> domains[choice[1]],
                                               trail_len |-> Len(trail),
                                               doms |-> domains])
                     /\ pc' = "branch"
                     /\ UNCHANGED <<result, any>>
    /\ UNCHANGED <<domains, trail, queue, constraints, watchers, branches, pre, ckpt>>

\* The head of the while loop over the digits of the chosen cell and the body up
\* to the recursive call: the loop ends (Ok(false)), or the next digit is
\* assigned and search() is entered again, or the assignment fails and the
\* trail is unwound.
Branch ==
    /\ pc = "branch"
    /\ LET f == stack[Len(stack)]
       IN  IF f.m = {}
           THEN /\ stack' = SubSeq(stack, 1, Len(stack) - 1)
                /\ result' = Res("search", "false", FALSE, Len(stack) - 1)
                /\ pc' = "search_return"
                /\ UNCHANGED <<domains, trail, queue, branches, any>>
           ELSE LET d == trailing_zeros(f.m)
                    bit == bit_of_digit(d)
                IN  \E a \in {assign(domains, trail, f.i, bit)},
                       b \in {backtrack_to(domains, trail, f.trail_len)} :
                    /\ stack' = [stack EXCEPT ![Len(stack)].m = f.m \ bit]
                    \* += 1 on a u32: the counter stays far below 2^32 here
                    /\ branches' = branches + 1
                    /\ IF a.res = "Ok"
                       THEN /\ domains' = a.domains
                            /\ trail' = a.trail
                            /\ queue' = search_entry(
                                   enqueue_cell_constraints(queue, watchers, f.i),
                                   a.trail, constraints)
                            /\ any' = FALSE
                            /\ pc' = "search_propagate"
                            /\ UNCHANGED result
                       ELSE /\ domains' = b.domains
                            /\ trail' = b.trail
                            /\ pc' = "branch"
                            /\ UNCHANGED <<queue, any, result>>
    /\ UNCHANGED <<constraints, watchers, pre, ckpt>>

\* A search call has returned: to the caller of the top-level call, or into the
\* match of the frame that made the recursive call.
SearchReturn ==
    /\ pc = "search_return"
    /\ IF stack = <<>>
       THEN /\ pc' = "done"
            /\ UNCHANGED <<domains, trail, stack, result>>
       ELSE IF result.res = "true"
       THEN /\ stack' = SubSeq(stack, 1, Len(stack) - 1)
            /\ result' = Res("search", "true", FALSE, Len(stack) - 1)
            /\ pc' = "search_return"
            /\ UNCHANGED <<domains, trail>>
       ELSE \E b \in {backtrack_to(domains, trail, stack[Len(stack)].trail_len)} :
                /\ domains' = b.domains
                /\ trail' = b.trail
                /\ pc' = "branch"
                /\ UNCHANGED <<stack, result>>
    /\ UNCHANGED <<queue, constraints, watchers, branches, any, pre, ckpt>>

(***************************************************************************)
(* Spec: engines with a few constraints on row 0 and column 0.  The caller *)
(* either presets the domains or loads givens, and then searches.  In the  *)
(* presets and the givens the three cells the Kropki dots join are free    *)
(* (any non-empty set of the digits 1..MaxEngDigit; blank or one of these  *)
(* digits), cell j of the rest of row 0 holds digit j + 1 and every cell   *)
(* of another row r holds digit r + 1.                                     *)
(***************************************************************************)
MaxEngDigit == 3

Row0Engine == add_constraint(NewEngine, AllDifferent(RowCells(0)))
White01(e) == add_kropki_white(e, <<0, 0>>, <<0, 1>>)
White12(e) == add_kropki_white(e, <<0, 1>>, <<0, 2>>)
White02(e) == add_kropki_white(e, <<0, 0>>, <<0, 2>>)

Configs ==
    << White12(White01(Row0Engine)),
       White02(White12(White01(Row0Engine))),
       White12(White01(NewEngine)),
       add_constraint(Row0Engine, AllDifferent(ColCells(0))),
       add_kropki_black(Row0Engine, <<0, 0>>, <<0, 1>>),
       add_constraint(Row0Engine, Thermo(<<0, 1, 2>>)) >>

EngFree == {idx(0, 0), idx(0, 1), idx(0, 2)}
EngDigits == 1..MaxEngDigit

\* the digit a non-free cell holds
FixedDigit(i) == IF row_of(i) = 0 THEN i + 1 ELSE row_of(i) + 1

EnginePreset(f) ==
    [i \in Cells |-> IF i \in EngFree THEN f[i] ELSE {FixedDigit(i)}]

\* the code point of digit d, and of '.'
DigitChar(d) == 48 + d
Dot == 46

EngineGivens(g) ==
    [k \in 1..NN |->
        IF (k - 1) \in EngFree
        THEN (IF g[k - 1] = 0 THEN Dot ELSE DigitChar(g[k - 1]))
        ELSE DigitChar(FixedDigit(k - 1))]

Init ==
    /\ \E c \in 1..Len(Configs) :
          /\ constraints = Configs[c].constraints
          /\ watchers = Configs[c].watchers
    /\ domains = NewDomains
    /\ trail = <<>>
    /\ queue = <<>>
    /\ branches = 0
    /\ stack = <<>>
    /\ any = FALSE
    /\ result = NoResult
    /\ pre = Snapshot(NewDomains, <<>>)
    /\ ckpt = <<>>
    /\ pc = "new"

\* the caller's two ways of filling a new engine, over the inputs of this
\* specification
PresetFreeCells ==
    /\ pc = "new"
    /\ \E f \in [EngFree -> (SUBSET EngDigits) \ {{}}] : Preset(EnginePreset(f))

LoadFreeCells ==
    /\ pc = "new"
    /\ \E g \in [EngFree -> 0..MaxEngDigit] : LoadGivens(EngineGivens(g))

Next ==
    \/ PresetFreeCells
    \/ LoadFreeCells
    \/ PropagateStep
    \/ PropagateReturn
    \/ LoadReturn
    \/ Search
    \/ SearchAfter
    \/ Branch
    \/ SearchReturn

Spec == Init /\ [][Next]_vars

(***************************************************************************)
(* SpecClassic: the classic engine (add_all_sudoku_constraints) loading a   *)
(* grid of givens.  The grids hold four given 1s, at (0,1), (3,2), (6,3)   *)
(* and (7,6), at (8,0) a blank or a digit of 1..MaxCornerGiven, and at     *)
(* most one more 1, which shares a row, a column or a box with one of the  *)
(* four; every other cell is blank.                                        *)
(***************************************************************************)
MaxCornerGiven == 2

ClassicEngine == add_all_sudoku_constraints(NewEngine)

GivenOnes == {idx(0, 1), idx(3, 2), idx(6, 3), idx(7, 6)}
Corner == idx(8, 0)
\* a fifth 1: in row 0 with (0,1), in column 2 with (3,2), in box 8 with (7,6)
ExtraOnes == {idx(0, 5), idx(8, 2), idx(8, 8)}

ClassicGivens(g, extra) ==
    [k \in 1..NN |->
        IF (k - 1) \in GivenOnes \cup extra THEN DigitChar(1)
        ELSE IF k - 1 = Corner /\ g # 0 THEN DigitChar(g)
        ELSE Dot]

InitClassic ==
    /\ constraints = ClassicEngine.constraints
    /\ watchers = ClassicEngine.watchers
    /\ domains = NewDomains
    /\ trail = <<>>
    /\ queue = <<>>
    /\ branches = 0
    /\ stack = <<>>
    /\ any = FALSE
    /\ result = NoResult
    /\ pre = Snapshot(NewDomains, <<>>)
    /\ ckpt = <<>>
    /\ pc = "new"

LoadClassic ==
    /\ pc = "new"
    /\ \E g \in 0..MaxCornerGiven, extra \in {{}} \cup {{c} : c \in ExtraOnes} :
          LoadGivens(ClassicGivens(g, extra))

NextClassic ==
    \/ LoadClassic
    \/ PropagateStep
    \/ PropagateReturn
    \/ LoadReturn

SpecClassic == InitClassic /\ [][NextClassic]_vars

(***************************************************************************)
(* Claims on State (SpecState)                                             *)
(***************************************************************************)
\* C1: whenever (old domain AND mask) is empty, narrow returns Contradiction and
\* leaves every domain, that cell's included, and the trail as they were.
C1_NarrowContradictionKeepsState ==
    [][\A i \in StateCells, m \in TestMasks :
          (Narrow(i, m) /\ domains[i] \cap m = {})
              => (result'.res = "Err" /\ domains' = domains /\ trail' = trail)]_vars

\* a narrow that failed on a cell narrowed before
C1_Witness ==
    /\ result.op = "narrow"
    /\ result.res = "Err"
    /\ trail # <<>>

\* what C2 says a call with a non-empty intersection does
NarrowEffect(i, m) ==
    LET old == domains[i]
        new == old \cap m
    IN  /\ result'.res = "Ok"
        /\ domains' = [domains EXCEPT ![i] = new]
        /\ IF new # old
           THEN trail' = Append(trail, <<i, old>>) /\ result'.changed
           ELSE trail' = trail /\ ~result'.changed

\* C2: with a non-empty intersection the cell's domain becomes (old AND mask), no
\* other cell changes, exactly one entry (cell, old) is appended to the trail and
\* 'changed' is reported iff the domain changed; assign(cell, single) does the same
\* as narrow(cell, single).
C2_NarrowEffect ==
    [][/\ \A i \in StateCells, m \in TestMasks :
             (Narrow(i, m) /\ domains[i] \cap m # {}) => NarrowEffect(i, m)
       /\ \A i \in StateCells, d \in TestDigits :
             (Assign(i, d) /\ d \in domains[i]) => NarrowEffect(i, {d})]_vars

\* a second changing narrow of a cell: its trail entry holds the narrowed domain
C2_Witness ==
    /\ result.op = "narrow"
    /\ result.changed
    /\ Len(trail) >= 2
    /\ trail[Len(trail)][2] # DIGITS_MASK

\* C3: backtrack_to(k) to a checkpoint k, after any narrow/assign calls and
\* backtracks to checkpoints >= k, leaves the domains as they were when the
\* checkpoint was taken and the trail k long; backtrack_to(n) with n at or beyond
\* the trail length changes neither the domains nor the trail.
C3_TrailRoundTrip ==
    [][\A n \in 0..(MaxTrail + 1) :
          Backtrack(n) =>
              /\ n >= Len(trail) => (domains' = domains /\ trail' = trail)
              /\ (ckpt' # <<>> /\ n = ckpt'[1].k)
                     => (domains' = ckpt'[1].domains /\ Len(trail') = n)]_vars

\* a backtrack to a checkpoint that undid narrowings made after it
C3_Witness ==
    /\ result.op = "backtrack_to"
    /\ result.changed
    /\ ckpt # <<>>
    /\ result.n = ckpt[1].k
    /\ ckpt[1].k > 0

(***************************************************************************)
(* Claims on the Kropki rules (SpecKropki)                                 *)
(***************************************************************************)
Ratio2(x, y) == x = 2 * y \/ y = 2 * x
Consecutive(x, y) == x - y = 1 \/ y - x = 1

OthersKept == \A i \in Cells \ {KropkiA, KropkiB} : domains[i] = pre.domains[i]

\* C6: when the KropkiBlack rule returns Ok, the new domain of a is exactly the
\* digits of old a that are the double or the half of a digit of old b, and
\* symmetrically for b; it returns Contradiction only if one of those sets is empty.
C6_BlackEnforcesRatio ==
    result.op = "propagate_kropki_black" =>
        LET oa == pre.domains[KropkiA]
            ob == pre.domains[KropkiB]
            na == {x \in oa : \E y \in ob : Ratio2(x, y)}
            nb == {y \in ob : \E x \in oa : Ratio2(x, y)}
        IN  /\ result.res = "Ok" => (domains[KropkiA] = na /\ domains[KropkiB] = nb)
            /\ result.res = "Err" => (na = {} \/ nb = {})

\* C7: when the KropkiWhite rule returns Ok, the new domain of a is exactly the
\* digits of old a one away from a digit of old b, and symmetrically for b, both
\* taken from the domains read at entry; it returns Contradiction exactly when no
\* pair one apart exists, and then no domain has changed.
C7_WhiteEnforcesDifference ==
    result.op = "propagate_kropki_white" =>
        LET oa == pre.domains[KropkiA]
            ob == pre.domains[KropkiB]
            na == {x \in oa : \E y \in ob : Consecutive(x, y)}
            nb == {y \in ob : \E x \in oa : Consecutive(x, y)}
        IN  /\ result.res \in {"Ok", "Err"}
            /\ result.res = "Err" <=> ~(\E x \in oa, y \in ob : Consecutive(x, y))
            /\ result.res = "Ok" =>
                   (domains[KropkiA] = na /\ domains[KropkiB] = nb /\ OthersKept)
            /\ result.res = "Err" => (domains = pre.domains /\ trail = pre.trail)

\* the rule narrowed both cells
C7_Witness ==
    /\ result.op = "propagate_kropki_white"
    /\ result.res = "Ok"
    /\ domains[KropkiA] # pre.domains[KropkiA]
    /\ domains[KropkiB] # pre.domains[KropkiB]
    /\ Len(trail) = 2

(***************************************************************************)
(* Claims on the AllDifferent rule (SpecAllDiff)                           *)
(***************************************************************************)
\* Can the cells from position k on, position skip excepted, take pairwise
\* distinct digits of their domains that are not in used?
RECURSIVE CanComplete(_, _, _, _, _)
CanComplete(doms, cells, k, used, skip) ==
    IF k > Len(cells) THEN TRUE
    ELSE IF k = skip THEN CanComplete(doms, cells, k + 1, used, skip)
    ELSE \E d \in doms[cells[k]] \ used :
            CanComplete(doms, cells, k + 1, used \cup {d}, skip)

\* some assignment of pairwise distinct digits within the domains exists
Satisfiable(doms, cells) == CanComplete(doms, cells, 1, {}, 0)

\* ... and one of them gives digit d to the cell at position k
Usable(doms, cells, k, d) ==
    d \in doms[cells[k]] /\ CanComplete(doms, cells, 1, {d}, k)

\* C8: if some assignment of pairwise distinct digits to the 9 cells within their
\* domains exists, propagate_all_diff does not return Contradiction and every
\* (cell, digit) pair used by such an assignment is still in that cell's domain
\* (stated over the digits the rule removed: none of them is used by one).
C8_AllDiffSound ==
    (result.op = "propagate_all_diff" /\ Satisfiable(pre.domains, Row0)) =>
        /\ result.res = "Ok"
        /\ \A k \in 1..Len(Row0) : \A d \in pre.domains[Row0[k]] \ domains[Row0[k]] :
               ~Usable(pre.domains, Row0, k, d)

\* a satisfiable row in which two cells admit the same digits and the rule narrowed
C8_Witness ==
    /\ result.op = "propagate_all_diff"
    /\ result.res = "Ok"
    /\ result.changed
    /\ Satisfiable(pre.domains, Row0)
    /\ \E j, k \in 1..Len(Row0) :
          j # k /\ pre.domains[Row0[j]] \cap pre.domains[Row0[k]] # {}

(***************************************************************************)
(* Claims on the engine (Spec, SpecClassic)                                *)
(***************************************************************************)
AllDiffWhiteOnly ==
    \A k \in DOMAIN constraints : constraints[k].kind \in {"AllDifferent", "KropkiWhite"}

\* no two positions of the scope hold cells that are singleton for the same digit
NoEqualSingles(doms, cells) ==
    \A p, q \in DOMAIN cells :
        (p # q /\ count_ones(doms[cells[p]]) = 1) => doms[cells[p]] # doms[cells[q]]

\* every domain a singleton and no AllDifferent or KropkiWhite constraint violated
IsSolution(doms) ==
    /\ solved(doms)
    /\ \A k \in DOMAIN constraints :
          LET c == constraints[k]
          IN  /\ c.kind = "AllDifferent" => NoEqualSingles(doms, c.cells)
              /\ c.kind = "KropkiWhite" =>
                     \A x \in doms[c.cells[1]], y \in doms[c.cells[2]] : Consecutive(x, y)

SearchReturned(v) ==
    /\ pc \in {"search_return", "done"}
    /\ result.op = "search"
    /\ result.res = v

\* C4: in an engine of AllDifferent and KropkiWhite constraints only, whenever
\* search() returns true, and whenever load_givens returns Ok with solved() true,
\* every domain is a singleton, no AllDifferent scope holds a digit twice and
\* every KropkiWhite pair holds digits exactly 1 apart.
C4_SearchSound ==
    (AllDiffWhiteOnly /\ (SearchReturned("true") \/ (pc = "loaded" /\ solved(domains))))
        => IsSolution(domains)

\* a frame of the stack has a digit behind it that was tried and given up
FailedBranchBehind ==
    \E k \in DOMAIN stack :
        LET f == stack[k]
        IN  /\ Len(trail) > f.trail_len
            /\ trail[f.trail_len + 1][1] = f.i
            /\ \E x \in trail[f.trail_len + 1][2] : x \notin f.m /\ x \notin domains[f.i]

\* on an engine with both kinds of constraint, a search call returned true after
\* an earlier digit of its caller had failed
C4_Witness ==
    /\ AllDiffWhiteOnly
    /\ \E k \in DOMAIN constraints : constraints[k].kind = "AllDifferent"
    /\ \E k \in DOMAIN constraints : constraints[k].kind = "KropkiWhite"
    /\ pc = "search_return"
    /\ SearchReturned("true")
    /\ FailedBranchBehind

\* the cells of S in increasing order
SortedSeq(S) ==
    [k \in 1..Cardinality(S) |-> CHOOSE x \in S : Cardinality({y \in S : y < x}) = k - 1]

ConstrainedCells ==
    SortedSeq(UNION {{constraints[k].cells[p] : p \in DOMAIN constraints[k].cells} :
                        k \in DOMAIN constraints})

\* digit d at cell c agrees with the digits asg gives to other cells, under every
\* AllDifferent and KropkiWhite constraint
Agrees(asg, c, d) ==
    \A k \in DOMAIN constraints :
        LET con == constraints[k]
        IN  \A p, q \in DOMAIN con.cells :
                (p # q /\ con.cells[p] = c /\ con.cells[q] \in DOMAIN asg) =>
                    /\ con.kind = "AllDifferent" => asg[con.cells[q]] # d
                    /\ con.kind = "KropkiWhite" => Consecutive(d, asg[con.cells[q]])

\* asg extends over the cells order[k..] to an assignment within doms that
\* satisfies every constraint
RECURSIVE Extends(_, _, _, _)
Extends(doms, order, k, asg) ==
    IF k > Len(order) THEN TRUE
    ELSE \E d \in doms[order[k]] :
            /\ Agrees(asg, order[k], d)
            /\ Extends(doms, order, k + 1,
                       [x \in (DOMAIN asg) \cup {order[k]} |->
                            IF x = order[k] THEN d ELSE asg[x]])

\* one digit per cell, each from the cell's domain, satisfying every constraint
HasSolution(doms) ==
    /\ \A i \in Cells : doms[i] # {}
    /\ Extends(doms, ConstrainedCells, 1, [x \in {} |-> 0])

\* C5: in an engine of AllDifferent and KropkiWhite constraints only, search()
\* returns false only when no assignment of one digit per cell, each from the
\* cell's domain at the call, satisfies every registered constraint.
C5_SearchComplete ==
    (AllDiffWhiteOnly /\ pc = "done" /\ result.res = "false")
        => ~HasSolution(pre.domains)

\* a search that tried digits and exhausted them reported false
C5_Witness ==
    /\ AllDiffWhiteOnly
    /\ pc = "done"
    /\ result.res = "false"
    /\ branches > 0
    /\ \A i \in Cells : pre.domains[i] # {}

PropagateReturnedOk ==
    /\ pc \in {"load_after", "search_after"}
    /\ result.op = "propagate"
    /\ result.res \in {"Progress", "Stalled"}

HeadIsAllDiffWithEqualSingles ==
    /\ pc \in PropagatePcs
    /\ queue # <<>>
    /\ constraints[Head(queue) + 1].kind = "AllDifferent"
    /\ ~NoEqualSingles(domains, constraints[Head(queue) + 1].cells)

\* C9: the AllDifferent rule run on a scope in which two distinct cells are
\* singleton for the same digit returns Contradiction; and whenever propagate()
\* returns Ok no AllDifferent scope holds two singleton cells sharing a digit.
C9_AllDiffDetectsDuplicates ==
    /\ [][(HeadIsAllDiffWithEqualSingles /\ PropagateStep) =>
              (result'.op = "propagate" /\ result'.res = "Err" /\ pc' = AfterPc(pc))]_vars
    /\ [](PropagateReturnedOk =>
              \A k \in DOMAIN constraints :
                  constraints[k].kind = "AllDifferent" =>
                      NoEqualSingles(domains, constraints[k].cells))

\* the rule is about to run on a scope with two equal singleton cells
C9_Witness == HeadIsAllDiffWithEqualSingles

EveryDigitHasACell ==
    \A k \in DOMAIN constraints :
        constraints[k].kind = "AllDifferent" =>
            \A d \in 1..9 : \E p \in DOMAIN constraints[k].cells :
                d \in domains[constraints[k].cells[p]]

\* C10: after propagation converges without contradiction (load_givens or
\* propagate returns Ok), every digit 1..9 is in the domain of at least one cell
\* of every AllDifferent scope.
C10_EveryDigitInEveryScope ==
    (pc = "loaded" \/ PropagateReturnedOk) => EveryDigitHasACell

\* ---------------------------------------------------------------------------
\* Claims on the stored domains, termination and monotonicity
\* ---------------------------------------------------------------------------

\* C11: in every reachable state, the states left behind after a Contradiction
\* included, every stored domain is a non-empty subset of the digits 1..9:
\* never zero, bit 0 never set, no bit above 9 set.
C11_DomainsAreNonEmptyDigitSets ==
    \A i \in Cells :
        /\ domains[i] # {}
        /\ 0 \notin domains[i]
        /\ \A b \in domains[i] : b <= 9

\* propagate() has returned a Contradiction after its rules narrowed cells
C11_Witness ==
    /\ pc \in {"load_after", "search_after"}
    /\ result.op = "propagate"
    /\ result.res = "Err"
    /\ Len(trail) > Len(pre.trail)
    /\ domains # pre.domains

\* ENABLED <<PropagateStep>>_vars and ENABLED <<SearchAfter>>_vars, read off the
\* guards of the two actions: a rule run always changes the queue or the
\* domains, the match after propagate() always changes pc.
PropagateStepEnabled == pc \in PropagatePcs /\ queue # <<>>
SearchAfterEnabled == pc = "search_after"

\* an engine holding AllDifferent, KropkiWhite and KropkiBlack constraints only
NoThermo == \A k \in DOMAIN constraints : constraints[k].kind # "Thermo"

\* the engines of the liveness check, one for each implemented rule next to
\* row 0: three white dots, a second AllDifferent, a black dot
LiveEngines ==
    { White02(White12(White01(Row0Engine))),
      add_constraint(Row0Engine, AllDifferent(ColCells(0))),
      add_kropki_black(Row0Engine, <<0, 0>>, <<0, 1>>) }

InitLive ==
    /\ Init
    /\ \E e \in LiveEngines : constraints = e.constraints /\ watchers = e.watchers

\* The program is sequential and runs to completion: a call in progress takes
\* its next step.  This is weak fairness of every program step; for the two
\* steps that evaluate a rule or scan the board, WF_vars(A) is written out as
\* []<>~ENABLED <<A>>_vars \/ []<><<A>>_vars with the enabling condition above.
SpecLive ==
    /\ InitLive /\ [][Next]_vars
    /\ WF_vars(PropagateReturn)
    /\ WF_vars(LoadReturn)
    /\ WF_vars(Branch)
    /\ WF_vars(SearchReturn)
    /\ ([]<>(~PropagateStepEnabled) \/ []<><<PropagateStep>>_vars)
    /\ ([]<>(~SearchAfterEnabled) \/ []<><<SearchAfter>>_vars)

SearchCalled == pc \in {"search_propagate", "search_after", "branch", "search_return"}

\* C12: with AllDifferent, KropkiWhite and KropkiBlack constraints only, every
\* call of propagate() drains its queue or fails after finitely many rule runs,
\* every load_givens returns, and every search() returns true or false after
\* finitely many steps.
C12_Termination ==
    /\ (NoThermo /\ pc \in PropagatePcs) ~> (pc \notin PropagatePcs)
    /\ (NoThermo /\ pc = "load_propagate") ~> (pc \in {"loaded", "load_failed"})
    /\ (NoThermo /\ SearchCalled) ~>
           (pc = "done" /\ result.op = "search" /\ result.res \in {"true", "false"})

\* a search that branched, failed in a branch, backtracked and then returned
C12_Witness ==
    /\ pc = "done"
    /\ NoThermo
    /\ result.op = "search"
    /\ branches >= 2


\* the step unwound the trail: only backtrack_to pops trail entries
Backtracked ==
    /\ Len(trail') < Len(trail)
    /\ trail' = SubSeq(trail, 1, Len(trail'))

\* C13: every step that does not unwind the trail (a rule run, a propagate()
\* return, a load_givens decode, an assign of a search branch) leaves each
\* cell's domain a subset of its previous domain, so no cell's bit count grows
\* between backtracks.
C13_Monotone ==
    [][~Backtracked =>
          \A i \in Cells :
              /\ domains'[i] \subseteq domains[i]
              /\ count_ones(domains'[i]) <= count_ones(domains[i])]_vars

\* a rule run inside propagate() has narrowed a cell
C13_Witness ==
    /\ pc \in PropagatePcs
    /\ any
    /\ \E i \in Cells : domains[i] # pre.domains[i] /\ domains[i] \subseteq pre.domains[i]

\* ---------------------------------------------------------------------------
\* Claims on the Thermo dispatch and on load_givens
\* ---------------------------------------------------------------------------

\* C14: propagating an engine that holds a Thermo constraint never aborts the
\* process: no run of propagate() ends in a panic.
C14_ThermoDispatchNeverAborts ==
    ~(pc = "panic" /\ result.op = "propagate" /\ result.res = "Panic")

(***************************************************************************)
(* SpecLoad: load_givens on texts that may be malformed.  The engine holds *)
(* row 0 and two white dots; the texts are the blank-free-cells grid of    *)
(* the engine machine with one character replaced, inserted or deleted at  *)
(* one of the positions 0..MaxEditPos or at the last position.             *)
(***************************************************************************)
MaxEditPos == 2

EditPositions == (0..MaxEditPos) \cup {NN - 1}

\* code points: '.', '0', '1', '9'; ' ', '\n', U+2003 (em space); '/', ':', 'a';
\* U+012E, U+0130, U+0131, U+0139, U+0161, whose low bytes are '.', '0', '1',
\* '9', 'a'; U+0120, whose low byte is ' '
LoadChars == {46, 48, 49, 57, 32, 10, 8195, 47, 58, 97, 302, 304, 305, 313, 353, 288}

BaseText == EngineGivens([i \in EngFree |-> 0])

EditText(op, p, c) ==
    IF op = "put" THEN [BaseText EXCEPT ![p + 1] = c]
    ELSE IF op = "insert"
         THEN SubSeq(BaseText, 1, p) \o <<c>> \o SubSeq(BaseText, p + 1, NN)
    ELSE SubSeq(BaseText, 1, p) \o SubSeq(BaseText, p + 2, NN)

LoadEngine == White12(White01(Row0Engine))

InitLoad ==
    /\ constraints = LoadEngine.constraints
    /\ watchers = LoadEngine.watchers
    /\ domains = NewDomains
    /\ trail = <<>>
    /\ queue = <<>>
    /\ branches = 0
    /\ stack = <<>>
    /\ any = FALSE
    /\ result = NoResult
    /\ pre = Snapshot(NewDomains, <<>>)
    /\ ckpt = <<>>
    /\ pc = "new"

LoadText ==
    /\ pc = "new"
    /\ \E op \in {"put", "insert", "delete"}, p \in EditPositions, c \in LoadChars :
          LoadGivens(EditText(op, p, c))

NextLoad ==
    \/ LoadText
    \/ PropagateStep
    \/ PropagateReturn
    \/ LoadReturn

SpecLoad == InitLoad /\ [][NextLoad]_vars

\* the characters of the text that are not whitespace, as code points
NonWhitespace(text) == SelectSeq(text, NotWhitespace)

\* the step is a call of load_givens: it goes from a new engine to the decode's
\* outcome, and pre' holds the text
LoadCalled == pc = "new" /\ pc' \in {"load_propagate", "load_failed"}

\* C16: load_givens on a text whose non-whitespace characters do not number
\* exactly 81 returns the length error, reporting the number found, and leaves
\* domains, trail and queue as they were.
C16_WrongLengthRejected ==
    [][(LoadCalled /\ Len(NonWhitespace(pre'.text)) # NN) =>
          /\ pc' = "load_failed"
          /\ result'.op = "load_givens"
          /\ result'.res = "Err"
          /\ result'.msg = "need 81 chars"
          /\ result'.n = Len(NonWhitespace(pre'.text))
          /\ UNCHANGED <<domains, trail, queue>>]_vars

\* a text of 82 characters, none of them whitespace, was refused
C16_Witness ==
    /\ pc = "load_failed"
    /\ result.msg = "need 81 chars"
    /\ result.n = NN + 1
    /\ Len(pre.text) = NN + 1

\* the characters the givens format accepts: '.', '0' and '1'..'9'
IsBlankChar(cp) == cp = 46 \/ cp = 48
IsDigitChar(cp) == cp \in 49..57

\* C17: of the 81 non-whitespace characters of the text, '.' and '0' leave
\* their cell untouched and '1'..'9' assign their digit; the first character
\* that is none of these, whatever its code point, makes load_givens return the
\* decode error naming its position and the character itself.
C17_DecodesEveryCharacter ==
    [][(LoadCalled /\ Len(NonWhitespace(pre'.text)) = NN) =>
          LET chars == NonWhitespace(pre'.text)
              bad == {k \in 1..NN : ~IsBlankChar(chars[k]) /\ ~IsDigitChar(chars[k])}
          IN  IF bad = {}
              THEN /\ pc' = "load_propagate"
                   /\ \A k \in 1..NN :
                         domains'[k - 1] = IF IsDigitChar(chars[k])
                                           THEN {chars[k] - 48}
                                           ELSE domains[k - 1]
              ELSE LET k == CHOOSE j \in bad : \A j2 \in bad : j <= j2
                   IN  /\ pc' = "load_failed"
                       /\ result'.op = "load_givens"
                       /\ result'.msg = "invalid char"
                       /\ result'.n = k - 1
                       /\ result'.ch = chars[k]]_vars

\* running the rule of any registered constraint on the state reports no
\* change and no contradiction
AtFixpoint ==
    \A k \in DOMAIN constraints :
        LET r == constraint_propagate(constraints[k], domains, trail)
        IN  r.res = "Ok" /\ ~r.changed

\* no cell of constraint k holds a given of the loaded text
UntouchedByGivens(k) ==
    \A j \in DOMAIN constraints[k].cells :
        IsBlankChar(NonWhitespace(pre.text)[constraints[k].cells[j] + 1])

\* C15: whenever load_givens returns Ok the queue is empty and the rule of
\* every registered constraint, those without a given in their cells included,
\* reports no change and no contradiction when run again.
C15_LoadReachesFixpoint ==
    pc = "loaded" => (queue = <<>> /\ AtFixpoint)

\* load_givens returned Ok after narrowing cells, with a registered constraint
\* none of whose cells holds a given
C15_Witness ==
    /\ pc = "loaded"
    /\ \E i \in EngFree : domains[i] # DIGITS_MASK
    /\ \E k \in DOMAIN constraints : UntouchedByGivens(k)

\* ---------------------------------------------------------------------------
\* Claims on the fixpoint of propagate() and on the black dot at 9
\* ---------------------------------------------------------------------------

\* C20: whenever propagate() returns Ok (Progress or Stalled) the queue is empty
\* and running the rule of any registered constraint again (so of every
\* constraint that was in the queue at entry or that watches a cell changed
\* during the drain) reports no change and no contradiction.
C20_PropagateIdempotentAtFixpoint ==
    PropagateReturnedOk =>
        /\ queue = <<>>
        /\ \A k \in DOMAIN constraints :
              LET r == constraint_propagate(constraints[k], domains, trail)
              IN  r.res = "Ok" /\ r.changed = FALSE /\ r.domains = domains /\ r.trail = trail

\* inside a search branch, propagate() returned Progress: rules changed cells
\* and were re-enqueued until the queue drained
C20_Witness ==
    /\ pc = "search_after"
    /\ result.op = "propagate"
    /\ result.res = "Progress"
    /\ branches >= 1
    /\ queue = <<>>

NineOnOneSide == pre.domains[KropkiA] = {9} \/ pre.domains[KropkiB] = {9}

\* C19: the KropkiBlack rule run on a pair in which one side's domain is the
\* singleton {9} returns Contradiction, whatever the domain of the other side.
C19_BlackAtNineContradicts ==
    (result.op = "propagate_kropki_black" /\ NineOnOneSide) => result.res = "Err"

\* the rule has run with {9} on one side and every digit on the other
C19_Witness ==
    /\ result.op = "propagate_kropki_black"
    /\ pre.domains[KropkiA] = DIGITS_MASK
    /\ pre.domains[KropkiB] = {9}

\* the classic engine running its load to completion: weak fairness of the
\* program's steps, that of the rule-running step written out as in SpecLive
SpecClassicLive ==
    /\ InitClassic /\ [][NextClassic]_vars
    /\ WF_vars(PropagateReturn)
    /\ WF_vars(LoadReturn)
    /\ ([]<>(~PropagateStepEnabled) \/ []<><<PropagateStep>>_vars)

\* cells i and j share a row, a column or a box
SameUnit(i, j) == row_of(i) = row_of(j) \/ col_of(i) = col_of(j) \/ box_of(i) = box_of(j)

\* the text gives the same digit to two distinct cells of a common unit
DuplicateGivens(text) ==
    LET chars == NonWhitespace(text)
    IN  /\ Len(chars) = NN
        /\ \E i, j \in Cells :
              /\ i < j
              /\ SameUnit(i, j)
              /\ IsDigitChar(chars[i + 1])
              /\ chars[i + 1] = chars[j + 1]

\* C18: with the classic row, column and box constraints registered, a
\* load_givens call on a text that gives one digit to two cells of a common
\* row, column or box never returns Ok and never panics, and it returns an
\* error.
C18_DuplicateGivensRejected ==
    /\ []((pc # "new" /\ DuplicateGivens(pre.text)) =>
             (pc \notin {"loaded", "panic"} /\ result.res # "Panic"))
    /\ (pc # "new" /\ DuplicateGivens(pre.text)) ~>
           (pc = "load_failed" /\ result.op = "load_givens" /\ result.res = "Err")

\* load_givens returned its error for a text with two 1s in column 2
C18_Witness ==
    /\ pc = "load_failed"
    /\ result.op = "load_givens"
    /\ DuplicateGivens(pre.text)
    /\ NonWhitespace(pre.text)[idx(8, 2) + 1] = DigitChar(1)

\* ---------------------------------------------------------------------------
\* Claims on the search driver
\* ---------------------------------------------------------------------------

\* the running search call is at the head of its loop over the digits of its
\* cell, and at least one digit has been tried and has failed
DigitFailed ==
    /\ pc = "branch"
    /\ stack[Len(stack)].m # stack[Len(stack)].doms[stack[Len(stack)].i]

HeadRuleFails ==
    /\ pc \in PropagatePcs
    /\ queue # <<>>
    /\ constraint_propagate(constraints[Head(queue) + 1], domains, trail).res = "Err"

\* C22: the step of propagate() in which a rule returns Contradiction ends
\* propagate() with Contradiction: no further rule runs, and the indices not
\* yet popped stay in the queue; and propagate() returns Ok only on the empty
\* queue.
C22_ContradictionAbortsDrain ==
    /\ [][HeadRuleFails =>
             (/\ pc' = (IF pc = "load_propagate" THEN "load_after" ELSE "search_after")
              /\ result'.op = "propagate"
              /\ result'.res = "Err"
              /\ queue' = Tail(queue))]_vars
    /\ []((pc \in {"load_after", "search_after"} /\ result.op = "propagate") =>
             (result.res = "Err" \/ queue = <<>>))
    /\ [][(pc \in PropagatePcs /\ pc' \notin PropagatePcs
               /\ result'.res \in {"Progress", "Stalled"}) =>
             (queue = <<>> /\ queue' = <<>>)]_vars

\* propagate() has returned Contradiction with indices left in the queue
C22_Witness ==
    /\ pc \in {"load_after", "search_after"}
    /\ result.op = "propagate"
    /\ result.res = "Err"
    /\ Len(queue) >= 2

\* the cells of the board with more than one candidate
OpenCells(doms) == {i \in Cells : Cardinality(doms[i]) > 1}

\* cell i has the least number of candidates among the open cells, and is the
\* lowest such cell
IsMrvCell(doms, i) ==
    \E open \in {OpenCells(doms)}, n \in {Cardinality(doms[i])} :
        /\ i \in open
        /\ \A j \in open : n <= Cardinality(doms[j])
        /\ \A j \in open : j < i => n < Cardinality(doms[j])

\* the least digit of a non-empty set of digits
LeastDigit(m) == CHOOSE d \in m : \A e \in m : d <= e

\* C23: on every board choose_mrv returns None exactly when no cell has more
\* than one candidate, and otherwise the lowest cell among those with the least
\* number (above one) of candidates; search branches on that cell, and each
\* pass of its loop tries the least digit not yet tried.
C23_MrvChoiceAndDigitOrder ==
    /\ [](\A best \in {choose_mrv(domains)} :
              /\ (best = <<>>) <=> (OpenCells(domains) = {})
              /\ best # <<>> => IsMrvCell(domains, best[1]))
    /\ [][(pc = "search_after" /\ pc' = "branch") =>
             (/\ IsMrvCell(domains, stack'[Len(stack')].i)
              /\ stack'[Len(stack')].m = domains[stack'[Len(stack')].i])]_vars
    /\ [][(pc = "branch" /\ stack[Len(stack)].m # {}) =>
             LET f == stack[Len(stack)]
                 d == LeastDigit(f.m)
             IN  /\ stack'[Len(stack)].m = f.m \ {d}
                 /\ domains'[f.i] = {d}
                 /\ \A e \in f.m \ {d} : d < e]_vars

\* search has chosen a cell that is not the first open cell of the board: an
\* earlier cell has more candidates, and a later one has as many
C23_Witness ==
    /\ pc = "branch"
    /\ \E j \in Cells :
          /\ j < stack[Len(stack)].i
          /\ Cardinality(stack[Len(stack)].doms[j]) >
                 Cardinality(stack[Len(stack)].doms[stack[Len(stack)].i])
    /\ \E j \in Cells :
          /\ j > stack[Len(stack)].i
          /\ Cardinality(stack[Len(stack)].doms[j]) =
                 Cardinality(stack[Len(stack)].doms[stack[Len(stack)].i])

\* the rule has run on row 0 and returned Ok
AllDiffReturnedOk ==
    /\ result.op = "propagate_all_diff"
    /\ result.res = "Ok"

\* the cells of the scope that admit digit d on the board doms
Admitting(doms, cells, d) == {cells[k] : k \in {j \in DOMAIN cells : d \in doms[cells[j]]}}

\* C24: when propagate_all_diff returns Ok and a digit was admitted by exactly
\* one cell of the scope at entry, that cell holds exactly that digit
\* afterwards, and the rule reports a change if the cell held more at entry.
C24_HiddenSingleAssigned ==
    AllDiffReturnedOk =>
        \A d \in 1..9 : \A adm \in {Admitting(pre.domains, Row0, d)} :
            Cardinality(adm) = 1 =>
                \A c \in adm :
                    /\ domains[c] = {d}
                    /\ pre.domains[c] # {d} => result.changed

\* a digit admitted by one cell only, which admitted other digits too, and Ok
C24_Witness ==
    /\ AllDiffReturnedOk
    /\ \E d \in 1..9 : \E c \in Cells :
          /\ Admitting(pre.domains, Row0, d) = {c}
          /\ pre.domains[c] # {d}
          /\ domains[c] = {d}
    /\ result.changed

\* C25: when propagate_all_diff returns Ok, every cell of the scope that held a
\* single digit at entry still holds exactly that digit, and no other cell of
\* the scope admits it.
C25_NakedSingleEliminated ==
    AllDiffReturnedOk =>
        \A k \in DOMAIN Row0 : \A d \in pre.domains[Row0[k]] :
            pre.domains[Row0[k]] = {d} =>
                /\ domains[Row0[k]] = {d}
                /\ Admitting(domains, Row0, d) = {Row0[k]}

\* a single digit of one cell that other cells admitted at entry, and Ok
C25_Witness ==
    /\ AllDiffReturnedOk
    /\ \E d \in 1..9 : \E c \in Admitting(pre.domains, Row0, d) :
          /\ pre.domains[c] = {d}
          /\ Cardinality(Admitting(pre.domains, Row0, d)) >= 3
          /\ Admitting(domains, Row0, d) = {c}

\* C26: every value search() returns, at the root or in a nested call, is
\* Ok(true) or Ok(false); a Contradiction from propagate() makes the call
\* return Ok(false), and a nested call that returned Ok(false) makes its caller
\* unwind and go on with the next digit.
C26_SearchNeverReturnsContradiction ==
    /\ [](result.op = "search" => result.res \in {"true", "false"})
    /\ [](pc \in {"search_return", "done"} =>
             (result.op = "search" /\ result.res \in {"true", "false"}))
    /\ [][(pc = "search_after" /\ result.res = "Err") =>
             (/\ pc' = "search_return"
              /\ result'.op = "search"
              /\ result'.res = "false")]_vars
    /\ [][(pc = "search_return" /\ stack # <<>> /\ result.res = "false") =>
             (pc' = "branch" /\ stack' = stack)]_vars

\* a nested call has returned Ok(false) after propagate() failed in it (the
\* failed drain left constraints in the queue)
C26_Witness ==
    /\ pc = "search_return"
    /\ result.op = "search"
    /\ result.res = "false"
    /\ Len(stack) >= 1
    /\ result.n = Len(stack)
    /\ queue # <<>>

\* a call of search() is running
SearchRunning == pc \in {"search_propagate", "search_after", "branch", "search_return"}

\* the number of recursive calls of search() active below the top-level call:
\* one per frame waiting for its recursive call; at "branch" the top frame is
\* the running call's own
NestedCalls == IF pc = "branch" THEN Len(stack) - 1 ELSE Len(stack)

\* C28: while search() runs, the number of nested calls below the top-level
\* call is at most 81, and at most the number of cells that had more than one
\* candidate when the top-level call was made and hold one candidate now; a
\* nested call is entered only by a step that turns a cell with several
\* candidates into a singleton.
C28_BoundedRecursion ==
    /\ [](SearchRunning =>
             /\ NestedCalls <= NN
             /\ NestedCalls <= Cardinality(OpenCells(pre.domains))
             /\ NestedCalls <= Cardinality({i \in OpenCells(pre.domains) :
                                               Cardinality(domains[i]) = 1}))
    /\ [][(pc = "branch" /\ pc' = "search_propagate") =>
             (/\ Cardinality(domains[stack[Len(stack)].i]) > 1
              /\ Cardinality(domains'[stack[Len(stack)].i]) = 1
              /\ stack' # stack
              /\ Len(stack') = Len(stack))]_vars

\* as many nested calls as there were open cells at the top-level call, more
\* than one of them
C28_Witness ==
    /\ SearchRunning
    /\ NestedCalls >= 2
    /\ NestedCalls = Cardinality(OpenCells(pre.domains))

(***************************************************************************)
(* SpecQueue: the caller fills the queue itself before it searches.  The   *)
(* engine holds a white dot on (0,0)-(0,1) and then row 0.  Cells (0,0)    *)
(* and (0,1) are preset to any non-empty set of the digits 1..MaxEngDigit; *)
(* the other cells of row 0 are all full, or all hold the digits above     *)
(* MaxEngDigit.  The caller calls enqueue_all and enqueue_cell_constraints *)
(* while the queue holds at most MaxQueue indices, and then search(),      *)
(* whose first propagate() drains the queue it finds.                      *)
(***************************************************************************)
MaxQueue == 3

QueueEngine ==
    add_constraint(add_kropki_white(NewEngine, <<0, 0>>, <<0, 1>>), AllDifferent(RowCells(0)))

QueueFree == {idx(0, 0), idx(0, 1)}
\* the cells whose watchers the caller enqueues
QueueCells == {idx(0, 0), idx(0, 2)}

QueuePreset(f, tail) ==
    [i \in Cells |->
        IF i \in QueueFree THEN f[i]
        ELSE IF row_of(i) = 0 /\ tail = "high" THEN DIGITS_MASK \ EngDigits
        ELSE DIGITS_MASK]

InitQueue ==
    /\ constraints = QueueEngine.constraints
    /\ watchers = QueueEngine.watchers
    /\ \E f \in [QueueFree -> (SUBSET EngDigits) \ {{}}], tail \in {"high", "full"} :
          /\ domains = QueuePreset(f, tail)
          /\ pre = Snapshot(QueuePreset(f, tail), <<>>)
    /\ trail = <<>>
    /\ queue = <<>>
    /\ branches = 0
    /\ stack = <<>>
    /\ any = FALSE
    /\ result = NoResult
    /\ ckpt = <<>>
    /\ pc = "preset"

QueueFrame ==
    UNCHANGED <<domains, trail, constraints, watchers, branches, pc, stack, any,
                result, pre, ckpt>>

EnqueueAll ==
    /\ pc = "preset"
    /\ queue' = enqueue_all(queue, constraints)
    /\ Len(queue') <= MaxQueue
    /\ QueueFrame

EnqueueCellConstraints ==
    /\ pc = "preset"
    /\ \E i \in QueueCells : queue' = enqueue_cell_constraints(queue, watchers, i)
    /\ Len(queue') <= MaxQueue
    /\ QueueFrame

NextQueue ==
    \/ EnqueueAll
    \/ EnqueueCellConstraints
    \/ Search
    \/ PropagateStep
    \/ PropagateReturn

SpecQueue == InitQueue /\ [][NextQueue]_vars

\* propagate() as a function of the queue, the domains and the trail it starts
\* on: the loop of PropagateStep and the return of PropagateReturn
RECURSIVE Drain(_, _, _, _)
Drain(q, doms, tr, a) ==
    IF q = <<>>
    THEN [res |-> IF a THEN "Progress" ELSE "Stalled",
          domains |-> doms, trail |-> tr, queue |-> q]
    ELSE LET c == constraints[Head(q) + 1]
             r == constraint_propagate(c, doms, tr)
         IN  IF r.res # "Ok"
             THEN [res |-> r.res, domains |-> r.domains, trail |-> r.trail,
                   queue |-> Tail(q)]
             ELSE Drain(IF r.changed
                        THEN EnqueueScope(Tail(q), watchers, scope(c), 1)
                        ELSE Tail(q),
                        r.domains, r.trail, a \/ r.changed)

\* the positions of q whose index stands at another position too
DuplicatePositions(q) == {k \in DOMAIN q : \E j \in DOMAIN q : j # k /\ q[j] = q[k]}

\* q without its k-th entry
WithoutEntry(q, k) == SubSeq(q, 1, k - 1) \o SubSeq(q, k + 1, Len(q))

\* the first propagate() of the top-level search has returned
FirstDrainReturned ==
    /\ pc = "search_after"
    /\ result.op = "propagate"
    /\ stack = <<>>

\* C27: when propagate() has drained a queue holding an index more than once,
\* its verdict (Ok or Contradiction) and, on Ok, its domains are those of
\* propagate() on the same board with one of the repeated entries left out.
C27_DuplicateEntriesHarmless ==
    FirstDrainReturned =>
        \A k \in DuplicatePositions(pre.queue) :
            \E o \in {Drain(WithoutEntry(pre.queue, k), pre.domains, pre.trail, FALSE)} :
                /\ (o.res = "Err") <=> (result.res = "Err")
                /\ result.res # "Err" => o.domains = domains

=============================================================================
